---- MODULE Spec2Model ----
(***************************************************************************)
(* Model of ASCIISwapToolv2.py: the helper functions find_token,           *)
(* find_all_ma_files, extract_version_number, select_highest_version and   *)
(* the handler CloneOneLatestGUI.clone_latest.                             *)
(*                                                                         *)
(* A Python str is a sequence of one-character strings.  Python's None is  *)
(* the value None below, which is no string of characters.  os.path is     *)
(* posixpath: "/" is the only separator.                                   *)
(***************************************************************************)
EXTENDS Integers, Sequences, FiniteSets, TLC

VARIABLES
    src_entry,      \* text of the source Entry widget
    dst_entry,      \* text of the destination Entry widget
    status_label,   \* [text, fg] of the status Label
    fs,             \* the file system: [dirs, files]
    pc,             \* position inside clone_latest ("idle" outside it)
    loc,            \* the local variables of the running clone_latest
    dialogs,        \* message boxes shown by the current / last run, in order
    steps,          \* steps of the state machine taken by the current / last run
    fs0,            \* the file system when the current / last run started
    opened,         \* files opened for writing by the current / last run, in order
    runs,           \* number of runs of clone_latest started
    edits,          \* number of changes made to the entries
    call            \* a call of a helper function: [fn, args, ret]

vars == <<src_entry, dst_entry, status_label, fs, pc, loc, dialogs, steps, fs0,
          opened, runs, edits, call>>

-----------------------------------------------------------------------------
(* Bounds of the model *)

\* most runs of clone_latest the model follows
MaxRuns == 2

\* most changes of the entries the model follows
MaxEdits == 2

\* most characters of a failed write that reach the file
MaxPartial == 1

\* longest list of candidate paths handed to select_highest_version
MaxCandidates == 3

\* most pieces a path handed to find_token is made of
MaxPathPieces == 3

\* most pieces a file content handed to the rewrite is made of
MaxContentPieces == 2

-----------------------------------------------------------------------------
(* Strings *)

\* Python's None
None == <<"None">>

\* str(x) as an f-string interpolates it
Fmt(x) == IF x = None THEN <<"N", "o", "n", "e">> ELSE x

\* \d of the re module, on the ASCII alphabet of the model
IsDigit(c) == c \in {"0", "1", "2", "3", "4", "5", "6", "7", "8", "9"}

DigitValue(c) ==
    CASE c = "0" -> 0 [] c = "1" -> 1 [] c = "2" -> 2 [] c = "3" -> 3
      [] c = "4" -> 4 [] c = "5" -> 5 [] c = "6" -> 6 [] c = "7" -> 7
      [] c = "8" -> 8 [] c = "9" -> 9

\* int(s) of a run of digits
RECURSIVE ToInt(_)
ToInt(s) ==
    IF s = <<>> THEN 0
    ELSE 10 * ToInt(SubSeq(s, 1, Len(s) - 1)) + DigitValue(s[Len(s)])

\* re.IGNORECASE on the letters of the patterns used ("v", "m", "a")
Lower(c) ==
    CASE c = "V" -> "v" [] c = "M" -> "m" [] c = "A" -> "a" [] OTHER -> c

LowerStr(s) == [i \in 1..Len(s) |-> Lower(s[i])]

IsSpace(c) == c \in {" ", "\t", "\n"}

\* t occurs in s at index i
OccursAt(s, t, i) ==
    /\ i >= 1
    /\ i + Len(t) - 1 <= Len(s)
    /\ SubSeq(s, i, i + Len(t) - 1) = t

\* t in s
Contains(s, t) == \E i \in 1..(Len(s) + 1) : OccursAt(s, t, i)

\* str.replace(old, new) from index i on: non-overlapping occurrences, leftmost first
RECURSIVE ReplaceFrom(_, _, _, _)
ReplaceFrom(s, i, old, new) ==
    IF i > Len(s) THEN (IF old = <<>> THEN new ELSE <<>>)
    ELSE IF old = <<>> THEN new \o <<s[i]>> \o ReplaceFrom(s, i + 1, old, new)
    ELSE IF OccursAt(s, old, i) THEN new \o ReplaceFrom(s, i + Len(old), old, new)
    ELSE <<s[i]>> \o ReplaceFrom(s, i + 1, old, new)

\* s.replace(old, new, 1): the first occurrence only
RECURSIVE ReplaceFirstFrom(_, _, _, _)
ReplaceFirstFrom(s, i, old, new) ==
    IF i > Len(s) THEN <<>>
    ELSE IF OccursAt(s, old, i) THEN new \o SubSeq(s, i + Len(old), Len(s))
    ELSE <<s[i]>> \o ReplaceFirstFrom(s, i + 1, old, new)

ReplaceFirst(s, old, new) == ReplaceFirstFrom(s, 1, old, new)

\* s.replace(old, new)
Replace(s, old, new) == ReplaceFrom(s, 1, old, new)

\* s.strip()
RECURSIVE Strip(_)
Strip(s) ==
    IF s = <<>> THEN s
    ELSE IF IsSpace(s[1]) THEN Strip(Tail(s))
    ELSE IF IsSpace(s[Len(s)]) THEN Strip(SubSeq(s, 1, Len(s) - 1))
    ELSE s

\* length of the maximal run of digits of s that starts at index i
RECURSIVE DigitRunFrom(_, _)
DigitRunFrom(s, i) ==
    IF i <= Len(s) /\ IsDigit(s[i]) THEN 1 + DigitRunFrom(s, i + 1) ELSE 0

\* length of the maximal run of digits of s that ends at index j
RECURSIVE DigitRunTo(_, _)
DigitRunTo(s, j) ==
    IF j >= 1 /\ IsDigit(s[j]) THEN 1 + DigitRunTo(s, j - 1) ELSE 0

-----------------------------------------------------------------------------
(* find_token *)

\* path.replace("\\", "/")
Normalize(path) == Replace(path, <<"\\">>, <<"/">>)

\* re.search(prefix \d+, s) from index i on: the leftmost match, digits greedy
RECURSIVE SearchFrom(_, _, _)
SearchFrom(prefix, s, i) ==
    IF i > Len(s) THEN None
    ELSE IF OccursAt(s, prefix, i) /\ DigitRunFrom(s, i + Len(prefix)) >= 1
         THEN SubSeq(s, i, i + Len(prefix) + DigitRunFrom(s, i + Len(prefix)) - 1)
         ELSE SearchFrom(prefix, s, i + 1)

\* the pattern written <prefix>\d, without the +: one digit is matched
find_token_one_digit(prefix, path) ==
    LET t == SearchFrom(prefix, Normalize(path), 1)
    IN  IF t = None THEN None ELSE SubSeq(t, 1, Len(prefix) + 1)

\* find_token(r"<prefix>\d+", path)
find_token(prefix, path) == SearchFrom(prefix, Normalize(path), 1)

EP == <<"e", "p", "_">>
SQ == <<"s", "q", "_">>
SH == <<"s", "h", "_">>

-----------------------------------------------------------------------------
(* os.path (posixpath) *)

SEP == "/"

\* index of the last "/" of p, 0 when there is none
RECURSIVE LastSep(_, _)
LastSep(p, j) == IF j = 0 \/ p[j] = SEP THEN j ELSE LastSep(p, j - 1)

\* os.path.basename(p)
Basename(p) == SubSeq(p, LastSep(p, Len(p)) + 1, Len(p))

\* index of the last "." of fn, 0 when there is none
RECURSIVE LastDot(_, _)
LastDot(fn, j) == IF j = 0 \/ fn[j] = "." THEN j ELSE LastDot(fn, j - 1)

\* a name made of dots only up to index j (splitext keeps leading dots in the root)
OnlyDotsBefore(fn, j) == \A k \in 1..(j - 1) : fn[k] = "."

\* os.path.splitext(fn) of a file name without separator: <<root, ext>>
Splitext(fn) ==
    LET d == LastDot(fn, Len(fn))
    IN  IF d = 0 \/ OnlyDotsBefore(fn, d) THEN <<fn, <<>>>>
        ELSE <<SubSeq(fn, 1, d - 1), SubSeq(fn, d, Len(fn))>>

\* os.path.join(a, b)
Join(a, b) ==
    IF b # <<>> /\ b[1] = SEP THEN b
    ELSE IF a = <<>> \/ a[Len(a)] = SEP THEN a \o b
    ELSE a \o <<SEP>> \o b

\* p.split("/") from index i on, cur being the component read so far
RECURSIVE SplitFrom(_, _, _)
SplitFrom(p, i, cur) ==
    IF i > Len(p) THEN <<cur>>
    ELSE IF p[i] = SEP THEN <<cur>> \o SplitFrom(p, i + 1, <<>>)
    ELSE SplitFrom(p, i + 1, Append(cur, p[i]))

DOT == <<".">>
DOTDOT == <<".", ".">>

\* the loop of normpath over the components comps[i..], new_comps being kept so far
RECURSIVE NormComps(_, _, _, _)
NormComps(comps, i, new_comps, initial_slashes) ==
    IF i > Len(comps) THEN new_comps
    ELSE LET comp == comps[i]
             n == Len(new_comps)
         IN  IF comp = <<>> \/ comp = DOT
             THEN NormComps(comps, i + 1, new_comps, initial_slashes)
             ELSE IF \/ comp # DOTDOT
                     \/ (initial_slashes = 0 /\ n = 0)
                     \/ (n > 0 /\ new_comps[n] = DOTDOT)
             THEN NormComps(comps, i + 1, Append(new_comps, comp), initial_slashes)
             ELSE IF n > 0
             THEN NormComps(comps, i + 1, SubSeq(new_comps, 1, n - 1), initial_slashes)
             ELSE NormComps(comps, i + 1, new_comps, initial_slashes)

\* "/".join(comps)
RECURSIVE JoinComps(_)
JoinComps(comps) ==
    IF comps = <<>> THEN <<>>
    ELSE IF Len(comps) = 1 THEN comps[1]
    ELSE comps[1] \o <<SEP>> \o JoinComps(Tail(comps))

\* os.path.normpath(path)
Normpath(path) ==
    IF path = <<>> THEN DOT
    ELSE LET starts(n) == Len(path) >= n /\ \A k \in 1..n : path[k] = SEP
             initial_slashes == IF ~starts(1) THEN 0
                                ELSE IF starts(2) /\ ~starts(3) THEN 2 ELSE 1
             body == JoinComps(NormComps(SplitFrom(path, 1, <<>>), 1, <<>>, initial_slashes))
             res == [k \in 1..initial_slashes |-> SEP] \o body
         IN  IF res = <<>> THEN DOT ELSE res

-----------------------------------------------------------------------------
(* Version scanner *)

DOTMA == <<".", "m", "a">>

\* fn ends in _v<digits>.ma, letters compared without case:
\* what both r".*_v\d+\.ma$" (re.match) and r"_v(\d+)\.ma$" (re.search) accept
IsVersionedMa(fn) ==
    LET n == Len(fn)
        d == DigitRunTo(fn, n - 3)
    IN  /\ n >= 6
        /\ LowerStr(SubSeq(fn, n - 2, n)) = DOTMA
        /\ d >= 1
        /\ n - 3 - d >= 2
        /\ fn[n - 4 - d] = "_"
        /\ Lower(fn[n - 3 - d]) = "v"

\* extract_version_number(filename): <<int>>, or <<>> for None
extract_version_number(filename) ==
    IF IsVersionedMa(filename)
    THEN LET n == Len(filename)
             d == DigitRunTo(filename, n - 3)
         IN  <<ToInt(SubSeq(filename, n - 2 - d, n - 3))>>
    ELSE <<>>

\* the decimal digits of n
RECURSIVE Decimal(_)
Decimal(n) == IF n < 10 THEN <<n>> ELSE Append(Decimal(n \div 10), n % 10)

\* a < b as Python compares the strings of digits a and b
RECURSIVE LexLess(_, _)
LexLess(a, b) ==
    IF b = <<>> THEN FALSE
    ELSE IF a = <<>> THEN TRUE
    ELSE IF a[1] # b[1] THEN a[1] < b[1]
    ELSE LexLess(Tail(a), Tail(b))

\* the versions compared as strings, not as integers
VersionBeatsAsText(ver, best_ver) ==
    best_ver < 0 \/ LexLess(Decimal(best_ver), Decimal(ver))

\* ver >= best_ver: a later candidate with the same version replaces the best
VersionBeatsOrTies(ver, best_ver) == ver >= best_ver

\* ver > best_ver
VersionBeats(ver, best_ver) == ver > best_ver

\* the loop of select_highest_version over ma_paths[i..]
RECURSIVE SelectLoop(_, _, _, _)
SelectLoop(ma_paths, i, best_path, best_ver) ==
    IF i > Len(ma_paths) THEN best_path
    ELSE LET p == ma_paths[i]
             fn == Basename(p)
             ver == extract_version_number(fn)
         IN  IF ver # <<>> /\ VersionBeats(ver[1], best_ver)
             THEN SelectLoop(ma_paths, i + 1, p, ver[1])
             ELSE SelectLoop(ma_paths, i + 1, best_path, best_ver)

\* select_highest_version(ma_paths)
select_highest_version(ma_paths) == SelectLoop(ma_paths, 1, None, -1)

-----------------------------------------------------------------------------
(* Naming and content rewriting of clone_latest *)

V001 == <<"_", "v", "0", "0", "1">>

\* re.match(r"^(.*)_v\d+$", base_noext, re.IGNORECASE): group(1), or None
MatchBase(base_noext) ==
    LET n == Len(base_noext)
        d == DigitRunTo(base_noext, n)
    IN  IF /\ d >= 1
           /\ n - d >= 2
           /\ base_noext[n - d - 1] = "_"
           /\ Lower(base_noext[n - d]) = "v"
        THEN SubSeq(base_noext, 1, n - d - 2)
        ELSE None

\* the new name written with version 1 unpadded
NewFileNameUnpadded(base_before_ver) == base_before_ver \o <<"_", "v", "1", ".", "m", "a">>

\* f"{base_before_ver}_v001.ma"
NewFileName(base_before_ver) == base_before_ver \o V001 \o DOTMA

\* f"{base_before_ver}_v001"
NewBase(base_before_ver) == base_before_ver \o V001

\* re.sub(r"_v\d+", "_v001", s) from index i on
RECURSIVE SubVersionsFrom(_, _)
SubVersionsFrom(s, i) ==
    IF i > Len(s) THEN <<>>
    ELSE IF OccursAt(s, <<"_", "v">>, i) /\ DigitRunFrom(s, i + 2) >= 1
    THEN V001 \o SubVersionsFrom(s, i + 2 + DigitRunFrom(s, i + 2))
    ELSE <<s[i]>> \o SubVersionsFrom(s, i + 1)

\* the rewrite with every version suffix of the content set to _v001, not only
\* the one of the selected file
RewriteContentAnyVersion(content, old_ep, new_ep, old_sq, new_sq, old_sh, new_sh, latest_fn, new_fn, base_noext, base_before_ver) ==
    LET c1 == Replace(content, old_ep, new_ep)
        c2 == Replace(c1, old_sq, new_sq)
        c3 == Replace(c2, old_sh, new_sh)
    IN  SubVersionsFrom(c3, 1)

\* the five replacements, in order, on the content read
RewriteContent(content, old_ep, new_ep, old_sq, new_sq, old_sh, new_sh, latest_fn, new_fn, base_noext, base_before_ver) ==
    LET c1 == Replace(content, old_ep, new_ep)
        c2 == Replace(c1, old_sq, new_sq)
        c3 == Replace(c2, old_sh, new_sh)
        c4 == Replace(c3, latest_fn, new_fn)
    IN  Replace(c4, base_noext, NewBase(base_before_ver))

-----------------------------------------------------------------------------
(* The file system: fs.dirs is the set of directories, fs.files maps each   *)
(* file to its content; both hold absolute normalised paths.                *)

CWD == <<"/">>

\* the absolute path the operating system resolves p to (no symbolic links)
Resolve(p) ==
    LET q == Normpath(Join(CWD, p))
    IN  IF Len(q) >= 2 /\ q[1] = SEP /\ q[2] = SEP THEN Tail(q) ELSE q

\* os.path.isdir(p)
IsDir(f, p) == p # <<>> /\ Resolve(p) \in f.dirs

\* os.path.isfile(p)
IsFile(f, p) == p # <<>> /\ Resolve(p) \in DOMAIN f.files

\* the directory holding the resolved path p
Dirname(p) ==
    LET j == LastSep(p, Len(p))
    IN  IF j <= 1 THEN SubSeq(p, 1, j) ELSE SubSeq(p, 1, j - 1)

\* the resolved path p lies below the directory d
IsUnder(d, p) ==
    IF d = CWD THEN Len(p) > 1
    ELSE /\ Len(p) > Len(d) + 1
         /\ SubSeq(p, 1, Len(d)) = d
         /\ p[Len(d) + 1] = SEP

\* p relative to the directory d above it
RelTo(d, p) == IF d = CWD THEN Tail(p) ELSE SubSeq(p, Len(d) + 2, Len(p))

\* the resolved path p and the directories above it
AncestorsOrSelf(p) ==
    {SubSeq(p, 1, k) : k \in {i \in 1..Len(p) : i = Len(p) \/ i = 1 \/ p[i + 1] = SEP}}

\* os.makedirs(dest_root, exist_ok=True): the outcomes [ok, fs] it can have.
\* A failure may leave the directories created before it.
MakeDirsOutcomes(f, dest_root) ==
    LET target == Resolve(dest_root)
        need == AncestorsOrSelf(target) \ f.dirs
    IN  IF need = {} THEN {[ok |-> TRUE, fs |-> f]}
        ELSE IF \E q \in AncestorsOrSelf(target) : q \in DOMAIN f.files
        THEN {[ok |-> FALSE, fs |-> f]}
        ELSE {[ok |-> TRUE, fs |-> [f EXCEPT !.dirs = @ \cup need]]}
             \cup {[ok |-> FALSE,
                    fs |-> [f EXCEPT !.dirs = @ \cup {q \in need : Len(q) < Len(r)}]]
                   : r \in need}

\* f with content c in file p
WithFile(f, p, c) == [f EXCEPT !.files = (Resolve(p) :> c) @@ @]

\* open(p, "w") truncates p, f.write(content) fills it: the outcomes [ok, opened, fs]
\* (the open fails; the write fails after k characters; both succeed)
WriteOutcomes(f, p, content) ==
    {[ok |-> FALSE, opened |-> FALSE, fs |-> f]}
    \cup {[ok |-> FALSE, opened |-> TRUE, fs |-> WithFile(f, p, SubSeq(content, 1, k))]
          : k \in 0..(IF Len(content) - 1 < MaxPartial THEN Len(content) - 1
                       ELSE MaxPartial)}
    \cup {[ok |-> TRUE, opened |-> TRUE, fs |-> WithFile(f, p, content)]}

\* all orders of the elements of the finite set S
Orders(S) ==
    {q \in [1..Cardinality(S) -> S] : \A i, j \in 1..Cardinality(S) : q[i] = q[j] => i = j}

\* the versioned .ma files below the resolved directory root
VersionedBelow(f, root) ==
    {p \in DOMAIN f.files : IsUnder(root, p) /\ IsVersionedMa(Basename(p))}

\* q is an order in which os.walk(root) can meet the files of q: top-down, a
\* directory's own files before those of its subdirectories, each subtree in
\* one piece, the entries of one directory in any order
IsWalkOrder(q) ==
    LET n == Len(q)
        dir(i) == Dirname(q[i])
        inside(d, i) == dir(i) = d \/ IsUnder(d, dir(i))
    IN  /\ \A i, j \in 1..n : (i < j) => ~IsUnder(dir(j), dir(i))
        /\ \A i, j, k \in 1..n :
               (i < j /\ j < k) =>
                   \A d \in UNION {AncestorsOrSelf(dir(m)) : m \in {i, k}} :
                       (inside(d, i) /\ inside(d, k)) => inside(d, j)

\* find_all_ma_files(root_folder): the lists it can return
find_all_ma_files(f, root_folder) ==
    LET root == Resolve(root_folder)
    IN  {[i \in 1..Len(q) |-> Join(root_folder, RelTo(root, q[i]))]
         : q \in {o \in Orders(VersionedBelow(f, root)) : IsWalkOrder(o)}}

-----------------------------------------------------------------------------
(* CloneOneLatestGUI *)

\* the local variables of clone_latest, none bound yet
NoLocals ==
    [source_root |-> None, dest_root |-> None,
     old_ep |-> None, old_sq |-> None, old_sh |-> None,
     new_ep |-> None, new_sq |-> None, new_sh |-> None,
     all_ma |-> <<>>, latest_ma |-> None, latest_fn |-> None,
     base_noext |-> None, base_before_ver |-> None, new_fn |-> None,
     dest_fullpath |-> None, resp |-> None, content |-> None]

\* messagebox.showerror("Error", text.format(args))
ShowError(text, args) == [box |-> "showerror", text |-> text, args |-> args]

MsgInvalidSource == "Please choose a valid Source Shot folder."
MsgNoDest == "Please choose a Destination Shot folder."
MsgSourceTokens == "Source folder must contain ep_###, sq_###, and sh_###.\nFound: ep={}, sq={}, sh={}"
MsgDestTokens == "Destination folder must contain ep_###, sq_###, and sh_###.\nFound: ep={}, sq={}, sh={}"
MsgIdentical == "Source and Destination folders must differ."
MsgNoCandidates == "No Maya ASCII files matching '*_v###.ma' found under source folder."
MsgNoLatest == "Could not determine the latest-version .ma file."
MsgBadName == "Latest .ma filename does not match pattern '*_v###.ma':\n  {}"
MsgMakeDirs == "Could not create Destination folder:\n{}"
MsgOverwrite == "A file named '{}' already exists in the destination.\nDo you want to overwrite it?"
MsgRead == "Failed to read source .ma:\n{}\n{}"
MsgWrite == "Failed to write new .ma:\n{}\n{}"
MsgSuccess == "Cloned:\n  {}\n?\n  {}\n\n(Tokens: {}?{}, {}?{}, {}?{}; version ? v001)"
MsgCanceled == "Operation canceled by user."
MsgCompleted == "Clone completed successfully."

\* the text of the exception an I/O call raised
IOError == <<"e">>

\* a token was found: "if old_ep" is false for None (and for "")
Truthy(x) == x # None /\ x # <<>>

\* the folders filedialog.askdirectory may return ("" when the dialog is cancelled)
SRC == <<"/", "e", "p", "_", "0", "1", "/", "s", "q", "_", "0", "1", "0", "/", "s", "h", "_", "0", "2", "0", "/", "w", "o", "r", "k">>
DST == <<"/", "e", "p", "_", "0", "2", "/", "s", "q", "_", "0", "2", "0", "/", "s", "h", "_", "0", "3", "0", "/", "w", "o", "r", "k">>
SrcNoShot == <<"/", "e", "p", "_", "0", "1", "/", "s", "q", "_", "0", "1", "0", "/", "w", "o", "r", "k">>
SrcEmptyDir == <<"/", "e", "/", "e", "p", "_", "1", "/", "s", "q", "_", "1", "/", "s", "h", "_", "1">>
DstNoSeq == <<"/", "e", "p", "_", "0", "2", "/", "s", "h", "_", "0", "3", "0">>
SourceFolders == {<<>>, SRC, SrcNoShot, SrcEmptyDir}
DestFolders == {<<>>, DST, DstNoSeq, SRC}

\* texts typed into the entries
SourceTyped == {<<"/", "g", "o", "n", "e", "/", "e", "p", "_", "0", "1", "/", "s", "q", "_", "0", "1", "0">>, <<" ", "/", "e", "p", "_", "0", "1", "/", "s", "q", "_", "0", "1", "0", "/", "s", "h", "_", "0", "2", "0", "/", "/", "w", "o", "r", "k", "/", " ">>}
DestTyped == {<<>>, <<"/", "e", "p", "_", "0", "1", "/", "s", "q", "_", "0", "1", "0", "/", "s", "h", "_", "0", "2", "0", "/", "w", "o", "r", "k", "/">>, <<"\\", "\\", "e", "p", "_", "0", "2", "\\", "\\", "s", "q", "_", "0", "2", "0", "\\", "\\", "s", "h", "_", "0", "3", "0">>}

\* browse_source
BrowseSource ==
    /\ pc = "idle"
    /\ edits < MaxEdits
    /\ \E folder \in SourceFolders :
          IF folder # <<>>
          THEN /\ src_entry' = folder
               /\ status_label' = [status_label EXCEPT !.text = ""]
               /\ edits' = edits + 1
          ELSE UNCHANGED <<src_entry, status_label, edits>>
    /\ UNCHANGED <<dst_entry, fs, pc, loc, dialogs, steps, fs0, opened, runs, call>>

\* browse_dest
BrowseDest ==
    /\ pc = "idle"
    /\ edits < MaxEdits
    /\ \E folder \in DestFolders :
          IF folder # <<>>
          THEN /\ dst_entry' = folder
               /\ status_label' = [status_label EXCEPT !.text = ""]
               /\ edits' = edits + 1
          ELSE UNCHANGED <<dst_entry, status_label, edits>>
    /\ UNCHANGED <<src_entry, fs, pc, loc, dialogs, steps, fs0, opened, runs, call>>

\* the user edits the source Entry
TypeSource ==
    /\ pc = "idle"
    /\ edits < MaxEdits
    /\ \E text \in SourceTyped : src_entry' = text
    /\ edits' = edits + 1
    /\ UNCHANGED <<dst_entry, status_label, fs, pc, loc, dialogs, steps, fs0, opened,
                   runs, call>>

\* the user edits the destination Entry
TypeDest ==
    /\ pc = "idle"
    /\ edits < MaxEdits
    /\ \E text \in DestTyped : dst_entry' = text
    /\ edits' = edits + 1
    /\ UNCHANGED <<src_entry, status_label, fs, pc, loc, dialogs, steps, fs0, opened,
                   runs, call>>

\* the shot token searched with the sequence pattern
ExtractTokensShotAsSequence(root) ==
    LET norm == Replace(root, <<"\\">>, <<"/">>)
    IN  [ep |-> find_token(EP, norm), sq |-> find_token(SQ, norm),
         sh |-> find_token(SQ, norm)]

\* the three find_token calls on one normalised root
ExtractTokens(root) ==
    LET norm == Replace(root, <<"\\">>, <<"/">>)
    IN  [ep |-> find_token(EP, norm), sq |-> find_token(SQ, norm),
         sh |-> find_token(SH, norm)]

\* step 1 of clone_latest on the roots read from the entries: the locals it binds
\* and the error it shows (text "" when the inputs are valid)
Validation(f, source_root, dest_root) ==
    LET l0 == [NoLocals EXCEPT !.source_root = source_root, !.dest_root = dest_root]
        old == ExtractTokens(source_root)
        new == ExtractTokens(dest_root)
        l1 == [l0 EXCEPT !.old_ep = old.ep, !.old_sq = old.sq, !.old_sh = old.sh]
        l2 == [l1 EXCEPT !.new_ep = new.ep, !.new_sq = new.sq, !.new_sh = new.sh]
    IN  IF source_root = <<>> \/ ~IsDir(f, source_root)
        THEN [loc |-> l0, text |-> MsgInvalidSource, args |-> <<>>]
        ELSE IF dest_root = <<>>
        THEN [loc |-> l0, text |-> MsgNoDest, args |-> <<>>]
        ELSE IF ~(Truthy(old.ep) /\ Truthy(old.sq) /\ Truthy(old.sh))
        THEN [loc |-> l1, text |-> MsgSourceTokens,
              args |-> <<Fmt(old.ep), Fmt(old.sq), Fmt(old.sh)>>]
        ELSE IF ~(Truthy(new.ep) /\ Truthy(new.sq) /\ Truthy(new.sh))
        THEN [loc |-> l2, text |-> MsgDestTokens,
              args |-> <<Fmt(new.ep), Fmt(new.sq), Fmt(new.sh)>>]
        ELSE IF Normpath(source_root) = Normpath(dest_root)
        THEN [loc |-> l2, text |-> MsgIdentical, args |-> <<>>]
        ELSE [loc |-> l2, text |-> "", args |-> <<>>]

\* clone_latest is entered (the button is pressed): 1) validate inputs
ValidateInputs ==
    /\ pc = "idle"
    /\ runs < MaxRuns
    /\ LET v == Validation(fs, Strip(src_entry), Strip(dst_entry))
       IN  /\ loc' = v.loc
           /\ IF v.text = ""
              THEN pc' = "discover" /\ dialogs' = <<>>
              ELSE pc' = "idle" /\ dialogs' = <<ShowError(v.text, v.args)>>
    /\ steps' = <<"validate">>
    /\ fs0' = fs
    /\ opened' = <<>>
    /\ runs' = runs + 1
    /\ UNCHANGED <<src_entry, dst_entry, status_label, fs, edits, call>>

\* the destination folder created before the candidates are looked for
DiscoverAfterMakeDirs ==
    /\ pc = "discover"
    /\ \E all_ma \in find_all_ma_files(fs, loc.source_root) :
          /\ loc' = [loc EXCEPT !.all_ma = all_ma]
          /\ IF all_ma = <<>>
             THEN pc' = "idle" /\ dialogs' = Append(dialogs, ShowError(MsgNoCandidates, <<>>))
             ELSE pc' = "select" /\ UNCHANGED dialogs
    /\ \E o \in {x \in MakeDirsOutcomes(fs, loc.dest_root) : x.ok} : fs' = o.fs
    /\ steps' = Append(steps, "discover")
    /\ UNCHANGED <<src_entry, dst_entry, status_label, fs0, opened, runs, edits, call>>

\* 2) gather all versioned .ma files
DiscoverCandidates ==
    /\ pc = "discover"
    /\ \E all_ma \in find_all_ma_files(fs, loc.source_root) :
          /\ loc' = [loc EXCEPT !.all_ma = all_ma]
          /\ IF all_ma = <<>>
             THEN pc' = "idle" /\ dialogs' = Append(dialogs, ShowError(MsgNoCandidates, <<>>))
             ELSE pc' = "select" /\ UNCHANGED dialogs
    /\ steps' = Append(steps, "discover")
    /\ UNCHANGED <<src_entry, dst_entry, status_label, fs, fs0, opened, runs, edits, call>>

\* 3) select the file with the highest version
SelectLatest ==
    /\ pc = "select"
    /\ LET latest_ma == select_highest_version(loc.all_ma)
       IN  /\ loc' = [loc EXCEPT !.latest_ma = latest_ma]
           /\ IF latest_ma = None
              THEN pc' = "idle" /\ dialogs' = Append(dialogs, ShowError(MsgNoLatest, <<>>))
              ELSE pc' = "derive" /\ UNCHANGED dialogs
    /\ steps' = Append(steps, "select")
    /\ UNCHANGED <<src_entry, dst_entry, status_label, fs, fs0, opened, runs, edits, call>>

\* the names derived from the selected path: latest_fn, base_noext, base_before_ver
\* (None when the name does not match), new_fn
DerivedNames(latest_ma) ==
    LET latest_fn == Basename(latest_ma)
        base_noext == Splitext(latest_fn)[1]
        base_before_ver == MatchBase(base_noext)
    IN  [latest_fn |-> latest_fn, base_noext |-> base_noext,
         base_before_ver |-> base_before_ver,
         new_fn |-> IF base_before_ver = None THEN None
                    ELSE NewFileName(base_before_ver)]

\* 4) compute the new file name
DeriveName ==
    /\ pc = "derive"
    /\ LET d == DerivedNames(loc.latest_ma)
       IN  /\ loc' = [loc EXCEPT !.latest_fn = d.latest_fn, !.base_noext = d.base_noext,
                                 !.base_before_ver = d.base_before_ver,
                                 !.new_fn = d.new_fn]
           /\ IF d.base_before_ver = None
              THEN /\ pc' = "idle"
                   /\ dialogs' = Append(dialogs, ShowError(MsgBadName, <<d.latest_fn>>))
              ELSE pc' = "prepare" /\ UNCHANGED dialogs
    /\ steps' = Append(steps, "derive name")
    /\ UNCHANGED <<src_entry, dst_entry, status_label, fs, fs0, opened, runs, edits, call>>

\* ... and ensure the destination folder exists
PrepareDestination ==
    /\ pc = "prepare"
    /\ \E o \in MakeDirsOutcomes(fs, loc.dest_root) :
          /\ fs' = o.fs
          /\ IF o.ok
             THEN /\ loc' = [loc EXCEPT !.dest_fullpath = Join(loc.dest_root, loc.new_fn)]
                  /\ pc' = "overwrite"
                  /\ UNCHANGED dialogs
             ELSE /\ pc' = "idle"
                  /\ dialogs' = Append(dialogs, ShowError(MsgMakeDirs, <<IOError>>))
                  /\ UNCHANGED loc
    /\ steps' = Append(steps, "prepare destination")
    /\ UNCHANGED <<src_entry, dst_entry, status_label, fs0, opened, runs, edits, call>>

\* the existence test made on the destination folder, not on the file in it
OverwriteCheckOnFolder ==
    /\ pc = "overwrite"
    /\ IF IsFile(fs, loc.dest_root)
       THEN \E resp \in BOOLEAN :
               /\ dialogs' = Append(dialogs, [box |-> "askyesno", text |-> MsgOverwrite,
                                              args |-> <<loc.new_fn>>])
               /\ loc' = [loc EXCEPT !.resp = IF resp THEN <<"T", "r", "u", "e">> ELSE <<"F", "a", "l", "s", "e">>]
               /\ IF resp
                  THEN pc' = "read" /\ UNCHANGED status_label
                  ELSE /\ pc' = "idle"
                       /\ status_label' = [text |-> MsgCanceled, fg |-> "orange"]
       ELSE pc' = "read" /\ UNCHANGED <<dialogs, status_label, loc>>
    /\ steps' = Append(steps, "overwrite check")
    /\ UNCHANGED <<src_entry, dst_entry, fs, fs0, opened, runs, edits, call>>

\* the destination file already exists: ask for overwrite confirmation
OverwriteCheck ==
    /\ pc = "overwrite"
    /\ IF IsFile(fs, loc.dest_fullpath)
       THEN \E resp \in BOOLEAN :
               /\ dialogs' = Append(dialogs, [box |-> "askyesno", text |-> MsgOverwrite,
                                              args |-> <<loc.new_fn>>])
               /\ loc' = [loc EXCEPT !.resp = IF resp THEN <<"T", "r", "u", "e">> ELSE <<"F", "a", "l", "s", "e">>]
               /\ IF resp
                  THEN pc' = "read" /\ UNCHANGED status_label
                  ELSE /\ pc' = "idle"
                       /\ status_label' = [text |-> MsgCanceled, fg |-> "orange"]
       ELSE pc' = "read" /\ UNCHANGED <<dialogs, status_label, loc>>
    /\ steps' = Append(steps, "overwrite check")
    /\ UNCHANGED <<src_entry, dst_entry, fs, fs0, opened, runs, edits, call>>

\* the destination opened for writing before the source is read
ReadSourceAfterOpen ==
    /\ pc = "read"
    /\ fs' = WithFile(fs, loc.dest_fullpath, <<>>)
    /\ opened' = Append(opened, Resolve(loc.dest_fullpath))
    /\ \E ok \in BOOLEAN :
          IF ok /\ IsFile(fs, loc.latest_ma)
          THEN /\ loc' = [loc EXCEPT !.content = fs.files[Resolve(loc.latest_ma)]]
               /\ pc' = "rewrite"
               /\ UNCHANGED dialogs
          ELSE /\ pc' = "idle"
               /\ dialogs' = Append(dialogs, ShowError(MsgRead, <<loc.latest_ma, IOError>>))
               /\ UNCHANGED loc
    /\ steps' = Append(steps, "read source")
    /\ UNCHANGED <<src_entry, dst_entry, status_label, fs0, runs, edits, call>>

\* 5) read ...
ReadSource ==
    /\ pc = "read"
    /\ \E ok \in BOOLEAN :
          IF ok /\ IsFile(fs, loc.latest_ma)
          THEN /\ loc' = [loc EXCEPT !.content = fs.files[Resolve(loc.latest_ma)]]
               /\ pc' = "rewrite"
               /\ UNCHANGED dialogs
          ELSE /\ pc' = "idle"
               /\ dialogs' = Append(dialogs, ShowError(MsgRead, <<loc.latest_ma, IOError>>))
               /\ UNCHANGED loc
    /\ steps' = Append(steps, "read source")
    /\ UNCHANGED <<src_entry, dst_entry, status_label, fs, fs0, opened, runs, edits, call>>

\* ... replace tokens ...
RewriteStep ==
    /\ pc = "rewrite"
    /\ loc' = [loc EXCEPT !.content =
                  RewriteContent(loc.content, loc.old_ep, loc.new_ep, loc.old_sq,
                                 loc.new_sq, loc.old_sh, loc.new_sh, loc.latest_fn,
                                 loc.new_fn, loc.base_noext, loc.base_before_ver)]
    /\ pc' = "write"
    /\ steps' = Append(steps, "rewrite")
    /\ UNCHANGED <<src_entry, dst_entry, status_label, fs, dialogs, fs0, opened, runs, edits, call>>

\* ... write out
WriteDestination ==
    /\ pc = "write"
    /\ \E o \in WriteOutcomes(fs, loc.dest_fullpath, loc.content) :
          /\ fs' = o.fs
          /\ opened' = IF o.opened THEN Append(opened, Resolve(loc.dest_fullpath))
                       ELSE opened
          /\ IF o.ok
             THEN pc' = "report" /\ UNCHANGED dialogs
             ELSE /\ pc' = "idle"
                  /\ dialogs' = Append(dialogs,
                                       ShowError(MsgWrite, <<loc.dest_fullpath, IOError>>))
    /\ steps' = Append(steps, "write")
    /\ UNCHANGED <<src_entry, dst_entry, status_label, loc, fs0, runs, edits, call>>

\* the success message box and status
ReportSuccess ==
    /\ pc = "report"
    /\ dialogs' = Append(dialogs,
                         [box |-> "showinfo", text |-> MsgSuccess,
                          args |-> <<loc.latest_ma, loc.dest_fullpath,
                                     Fmt(loc.old_ep), Fmt(loc.new_ep), Fmt(loc.old_sq),
                                     Fmt(loc.new_sq), Fmt(loc.old_sh), Fmt(loc.new_sh)>>])
    /\ status_label' = [text |-> MsgCompleted, fg |-> "green"]
    /\ pc' = "idle"
    /\ UNCHANGED <<src_entry, dst_entry, fs, loc, steps, fs0, opened, runs, edits, call>>

-----------------------------------------------------------------------------
(* The state after construction, and the file systems the tool is run on *)

ScenarioContent == <<"e", "p", "_", "0", "1", "_", "s", "q", "_", "0", "1", "0", "_", "s", "h", "_", "0", "2", "0", "_", "l", "i", "g", "h", "t", "i", "n", "g", "_", "v", "0", "0", "3">>

BaseDirs ==
    UNION {AncestorsOrSelf(d) : d \in {SRC, SrcNoShot, SrcEmptyDir}}

\* the end-to-end scenario: one shot folder, the destination not yet there
FsScenario ==
    [dirs |-> BaseDirs,
     files |-> (Join(SRC, <<"l", "i", "g", "h", "t", "i", "n", "g", "_", "v", "0", "0", "3", ".", "m", "a">>) :> ScenarioContent)
               @@ (Join(SRC, <<"l", "i", "g", "h", "t", "i", "n", "g", "_", "v", "0", "0", "2", ".", "m", "a">>) :> <<"l", "i", "g", "h", "t", "i", "n", "g", "_", "v", "0", "0", "2", " ", "e", "p", "_", "0", "1">>)
               @@ (Join(SRC, <<"n", "o", "t", "e", "s", ".", "t", "x", "t">>) :> <<"n">>)]

\* two files share the highest version, a subfolder holds an older one, and the
\* destination already holds a file
FsTies ==
    [dirs |-> BaseDirs \cup AncestorsOrSelf(DST) \cup {Join(SRC, <<"o", "l", "d">>)},
     files |-> (Join(SRC, <<"l", "i", "g", "h", "t", "i", "n", "g", "_", "v", "0", "0", "3", ".", "m", "a">>) :> <<"s", "h", "_", "0", "2", "0", " ", "l", "i", "g", "h", "t", "i", "n", "g", "_", "v", "0", "0", "3", ".", "m", "a">>)
               @@ (Join(SRC, <<"c", "a", "m", "_", "V", "0", "3", ".", "M", "A">>) :> <<"c", "a", "m", "_", "V", "0", "3", " ", "e", "p", "_", "0", "1">>)
               @@ (Join(SRC, <<"o", "l", "d", "/", "c", "a", "m", "_", "v", "1", ".", "m", "a">>) :> <<"x">>)
               @@ (Join(DST, <<"l", "i", "g", "h", "t", "i", "n", "g", "_", "v", "0", "0", "1", ".", "m", "a">>) :> <<"k", "e", "p", "t">>)]

InitialFileSystems == {FsScenario, FsTies}

NoCall == [fn |-> "", args |-> <<>>, done |-> FALSE, ret |-> <<>>]

\* __init__: empty entries, empty red status label; nothing has run
InitGUI ==
    /\ src_entry = <<>>
    /\ dst_entry = <<>>
    /\ status_label = [text |-> "", fg |-> "red"]
    /\ pc = "idle"
    /\ loc = NoLocals
    /\ dialogs = <<>>
    /\ steps = <<>>
    /\ opened = <<>>
    /\ runs = 0
    /\ edits = 0

Init ==
    /\ InitGUI
    /\ fs \in InitialFileSystems
    /\ fs0 = fs
    /\ call = NoCall

Next ==
    \/ BrowseSource
    \/ BrowseDest
    \/ TypeSource
    \/ TypeDest
    \/ ValidateInputs
    \/ DiscoverCandidates
    \/ SelectLatest
    \/ DeriveName
    \/ PrepareDestination
    \/ OverwriteCheck
    \/ ReadSource
    \/ RewriteStep
    \/ WriteDestination
    \/ ReportSuccess

Spec == Init /\ [][Next]_vars

-----------------------------------------------------------------------------
(* The helper functions called on their own *)

\* the concatenations of at most n of the strings of P
RECURSIVE Concats(_, _)
Concats(P, n) ==
    IF n = 0 THEN {<<>>}
    ELSE LET S == Concats(P, n - 1) IN S \cup {s \o p : s \in S, p \in P}

\* the lists of at most n elements of S
RECURSIVE Lists(_, _)
Lists(S, n) ==
    IF n = 0 THEN {<<>>}
    ELSE LET L == Lists(S, n - 1) IN L \cup {Append(l, x) : l \in L, x \in S}

\* this module's state outside the call
Quiet ==
    /\ InitGUI
    /\ fs = FsScenario
    /\ fs0 = fs

UnchangedGUI ==
    UNCHANGED <<src_entry, dst_entry, status_label, fs, pc, loc, dialogs, steps, fs0,
                opened, runs, edits>>

(* select_highest_version *)

CandidatePaths ==
    {<<"/", "s", "/", "s", "c", "e", "n", "e", "_", "v", "1", ".", "m", "a">>, <<"/", "s", "/", "s", "c", "e", "n", "e", "_", "v", "1", "0", ".", "m", "a">>, <<"/", "s", "/", "s", "c", "e", "n", "e", "_", "v", "2", ".", "m", "a">>,
     <<"/", "s", "/", "s", "c", "e", "n", "e", "_", "v", "0", "1", "0", ".", "m", "a">>, <<"/", "s", "/", "a", "/", "o", "t", "h", "e", "r", "_", "V", "1", "0", ".", "M", "A">>, <<"/", "s", "/", "n", "o", "t", "e", "s", ".", "m", "a">>}

InitSelect ==
    /\ Quiet
    /\ call \in {[fn |-> "select_highest_version", args |-> l, done |-> FALSE,
                  ret |-> None] : l \in Lists(CandidatePaths, MaxCandidates)}

CallSelect ==
    /\ call.fn = "select_highest_version"
    /\ ~call.done
    /\ call' = [call EXCEPT !.done = TRUE, !.ret = select_highest_version(call.args)]
    /\ UnchangedGUI

SpecSelect == InitSelect /\ [][CallSelect]_vars

(* find_token *)

TokenExample == <<"e", "p", "_", "1", "2", "/", "s", "q", "_", "0", "3", "4", "/", "s", "h", "_", "5">>

PathPieces ==
    {TokenExample, <<"/">>, <<"\\", "\\">>, <<"e", "p", "_", "1">>, <<"s", "q", "_">>, <<"s", "h", "_", "7">>, <<"6">>, <<"x">>}

InitToken ==
    /\ Quiet
    /\ call \in {[fn |-> "find_token", args |-> p, done |-> FALSE, ret |-> None]
                 : p \in Concats(PathPieces, MaxPathPieces)}

CallFindToken ==
    /\ call.fn = "find_token"
    /\ ~call.done
    /\ call' = [call EXCEPT !.done = TRUE, !.ret = ExtractTokens(call.args)]
    /\ UnchangedGUI

SpecToken == InitToken /\ [][CallFindToken]_vars

(* the rewrite of clone_latest *)

\* old and new tokens: unrelated, one a prefix of the other, equal
EpisodePairs == {<<<<"e", "p", "_", "1">>, <<"e", "p", "_", "2">>>>, <<<<"e", "p", "_", "1">>, <<"e", "p", "_", "1", "0">>>>,
                 <<<<"e", "p", "_", "1", "0">>, <<"e", "p", "_", "1">>>>, <<<<"e", "p", "_", "1">>, <<"e", "p", "_", "1">>>>}
SequencePairs == {<<<<"s", "q", "_", "1">>, <<"s", "q", "_", "2">>>>, <<<<"s", "q", "_", "1">>, <<"s", "q", "_", "1">>>>}
ShotPairs == {<<<<"s", "h", "_", "1">>, <<"s", "h", "_", "1", "2">>>>, <<<<"s", "h", "_", "2">>, <<"s", "h", "_", "1">>>>}

SelectedNames == {<<"x", "_", "v", "3", ".", "m", "a">>, <<"x", "_", "v", "0", ".", "m", "a">>, <<"e", "p", "_", "1", "x", "_", "V", "0", "0", "1", "1", ".", "M", "A">>, <<"x", "_", "v", "0", "0", "1", ".", "m", "a">>}

\* what a content is made of: the old strings of the call and other text
ContentPieces(a) ==
    {a.old_ep, a.old_sq, a.old_sh, a.latest_fn, Splitext(a.latest_fn)[1],
     <<"0">>, <<"1">>, <<"x", "_", "v", "7">>}

ScenarioCall ==
    [old_ep |-> <<"e", "p", "_", "0", "1">>, new_ep |-> <<"e", "p", "_", "0", "2">>, old_sq |-> <<"s", "q", "_", "0", "1", "0">>,
     new_sq |-> <<"s", "q", "_", "0", "2", "0">>, old_sh |-> <<"s", "h", "_", "0", "2", "0">>, new_sh |-> <<"s", "h", "_", "0", "3", "0">>,
     latest_fn |-> <<"l", "i", "g", "h", "t", "i", "n", "g", "_", "v", "0", "0", "3", ".", "m", "a">>, content |-> ScenarioContent]

RewriteCalls ==
    {ScenarioCall}
    \cup UNION {
        {[old_ep |-> a.old_ep, new_ep |-> a.new_ep, old_sq |-> a.old_sq,
          new_sq |-> a.new_sq, old_sh |-> a.old_sh, new_sh |-> a.new_sh,
          latest_fn |-> a.latest_fn, content |-> c]
         : c \in Concats(ContentPieces(a), MaxContentPieces)}
        : a \in {[old_ep |-> e[1], new_ep |-> e[2], old_sq |-> q[1], new_sq |-> q[2],
                  old_sh |-> h[1], new_sh |-> h[2], latest_fn |-> f]
                 : e \in EpisodePairs, q \in SequencePairs, h \in ShotPairs,
                   f \in SelectedNames}}

InitRewrite ==
    /\ Quiet
    /\ call \in {[fn |-> "rewrite", args |-> a, done |-> FALSE, ret |-> None]
                 : a \in RewriteCalls}

\* lines 182-195 and 223-229 of clone_latest on the selected name and the content read
CallRewrite ==
    /\ call.fn = "rewrite"
    /\ ~call.done
    /\ LET a == call.args
           d == DerivedNames(a.latest_fn)
       IN  call' = [call EXCEPT !.done = TRUE,
                                !.ret = RewriteContent(a.content, a.old_ep, a.new_ep,
                                            a.old_sq, a.new_sq, a.old_sh, a.new_sh,
                                            d.latest_fn, d.new_fn, d.base_noext,
                                            d.base_before_ver)]
    /\ UnchangedGUI

SpecRewrite == InitRewrite /\ [][CallRewrite]_vars

-----------------------------------------------------------------------------
(* Claims on select_highest_version, under SpecSelect *)

SelectReturned == call.fn = "select_highest_version" /\ call.done

\* the parsed version of the i-th candidate of the call, <<>> when it has none
CandidateVersion(i) == extract_version_number(Basename(call.args[i]))

\* C1: for a non-empty list of paths whose names all match <base>_v<digits>.ma,
\* select_highest_version returns one of the paths, and its version, read as an
\* integer, is at least the version of every candidate, whatever the order and
\* the base names of the candidates.
C1_SelectsHighestVersion ==
    (/\ SelectReturned
     /\ call.args # <<>>
     /\ \A i \in 1..Len(call.args) : IsVersionedMa(Basename(call.args[i])))
    => \E k \in 1..Len(call.args) :
          /\ call.ret = call.args[k]
          /\ \A i \in 1..Len(call.args) : CandidateVersion(i)[1] <= CandidateVersion(k)[1]

\* scene_v1.ma, scene_v10.ma, scene_v2.ma were given in some order and
\* scene_v10.ma came back
C1_Witness ==
    /\ SelectReturned
    /\ Len(call.args) = 3
    /\ {call.args[i] : i \in 1..3}
           = {<<"/", "s", "/", "s", "c", "e", "n", "e", "_", "v", "1", ".", "m", "a">>, <<"/", "s", "/", "s", "c", "e", "n", "e", "_", "v", "1", "0", ".", "m", "a">>, <<"/", "s", "/", "s", "c", "e", "n", "e", "_", "v", "2", ".", "m", "a">>}
    /\ call.args[3] = <<"/", "s", "/", "s", "c", "e", "n", "e", "_", "v", "2", ".", "m", "a">>
    /\ call.ret = <<"/", "s", "/", "s", "c", "e", "n", "e", "_", "v", "1", "0", ".", "m", "a">>

\* C9: when several candidates share the highest version (written with different
\* zero padding or under different base names), select_highest_version returns
\* the first of them in the order of the list.
C9_FirstOfEqualVersionsWins ==
    SelectReturned =>
        LET parsed == {i \in 1..Len(call.args) : CandidateVersion(i) # <<>>}
            highest == {i \in parsed :
                           \A j \in parsed : CandidateVersion(j)[1] <= CandidateVersion(i)[1]}
        IN  IF parsed = {} THEN call.ret = None
            ELSE \E i \in highest :
                    /\ \A j \in highest : i <= j
                    /\ call.ret = call.args[i]

\* scene_v010.ma came before scene_v10.ma and other_V10.MA, all of version 10,
\* and scene_v010.ma came back
C9_Witness ==
    /\ SelectReturned
    /\ call.args = <<<<"/", "s", "/", "s", "c", "e", "n", "e", "_", "v", "0", "1", "0", ".", "m", "a">>, <<"/", "s", "/", "s", "c", "e", "n", "e", "_", "v", "1", "0", ".", "m", "a">>, <<"/", "s", "/", "a", "/", "o", "t", "h", "e", "r", "_", "V", "1", "0", ".", "M", "A">>>>
    /\ call.ret = <<"/", "s", "/", "s", "c", "e", "n", "e", "_", "v", "0", "1", "0", ".", "m", "a">>

-----------------------------------------------------------------------------
(* Claims on find_token, under SpecToken *)

TokenReturned == call.fn = "find_token" /\ call.done

ExampleTokens == [ep |-> <<"e", "p", "_", "1", "2">>, sq |-> <<"s", "q", "_", "0", "3", "4">>, sh |-> <<"s", "h", "_", "5">>]

\* an ep_, sq_ or sh_ immediately followed by a digit occurs in s
TokenStartsIn(s) ==
    \E prefix \in {EP, SQ, SH} : \E j \in 1..Len(s) :
        OccursAt(s, prefix, j) /\ j + 3 <= Len(s) /\ IsDigit(s[j + 3])

\* C3 as stated: for every path that contains ep_12/sq_034/sh_5, with any text
\* before or after it, find_token returns exactly ep_12, sq_034 and sh_5.
C3_AnyTextAround ==
    (TokenReturned /\ Contains(call.args, TokenExample)) => call.ret = ExampleTokens

\* C3 amended: for every path that contains ep_12/sq_034/sh_5 where the text
\* before it holds no ep_, sq_ or sh_ followed by a digit and the text after it
\* does not start with a digit, find_token returns exactly ep_12, sq_034 and
\* sh_5, digits and padding as written.
C3_FirstTokensOfPath ==
    TokenReturned =>
        \A i \in 1..Len(call.args) :
            (/\ OccursAt(call.args, TokenExample, i)
             /\ ~TokenStartsIn(SubSeq(call.args, 1, i - 1))
             /\ \/ i + Len(TokenExample) > Len(call.args)
                \/ ~IsDigit(call.args[i + Len(TokenExample)]))
            => call.ret = ExampleTokens

\* a path with text on both sides of the example, none of it a token
C3_Witness ==
    /\ TokenReturned
    /\ call.args = <<"s", "q", "_">> \o TokenExample \o <<"x">>
    /\ call.ret = ExampleTokens

-----------------------------------------------------------------------------
(* Claims on the rewrite, under SpecRewrite *)

RewriteReturned == call.fn = "rewrite" /\ call.done

\* a is a prefix of b
IsPrefix(a, b) == Len(a) <= Len(b) /\ SubSeq(b, 1, Len(a)) = a

\* the old and new episode, sequence and shot tokens of the call
TokenPairs ==
    {<<call.args.old_ep, call.args.new_ep>>, <<call.args.old_sq, call.args.new_sq>>,
     <<call.args.old_sh, call.args.new_sh>>}

\* the old and new file name of the call, with and without extension
NamePairs ==
    LET d == DerivedNames(call.args.latest_fn)
    IN  {<<d.latest_fn, d.new_fn>>, <<d.base_noext, NewBase(d.base_before_ver)>>}

\* C2 as stated: the rewrite replaces every occurrence of the old episode,
\* sequence and shot token and of the old file name with and without extension,
\* so that the written content keeps no occurrence of an old string whose new
\* counterpart differs from it.
C2_NoOldStringLeft ==
    RewriteReturned =>
        \A pr \in TokenPairs \cup NamePairs :
            pr[1] # pr[2] => ~Contains(call.ret, pr[1])

\* C2 amended: the written content keeps no occurrence of an old episode,
\* sequence or shot token, provided neither that token nor its new counterpart
\* is a prefix of the other; in the end-to-end scenario the content becomes
\* ep_02_sq_020_sh_030_lighting_v001, with no ep_01, sq_010, sh_020 or _v003
\* left.  Nothing of the kind holds of the old file name.
C2_NoUnrelatedOldTokenLeft ==
    RewriteReturned =>
        /\ \A pr \in TokenPairs :
               (~IsPrefix(pr[1], pr[2]) /\ ~IsPrefix(pr[2], pr[1]))
               => ~Contains(call.ret, pr[1])
        /\ call.args = ScenarioCall =>
               /\ call.ret = <<"e", "p", "_", "0", "2", "_", "s", "q", "_", "0", "2", "0", "_", "s", "h", "_", "0", "3", "0", "_", "l", "i", "g", "h", "t", "i", "n", "g", "_", "v", "0", "0", "1">>
               /\ \A t \in {<<"e", "p", "_", "0", "1">>, <<"s", "q", "_", "0", "1", "0">>, <<"s", "h", "_", "0", "2", "0">>, <<"_", "v", "0", "0", "3">>} :
                      ~Contains(call.ret, t)

\* a content that held the old episode token twice, rewritten to one that holds
\* the new token and not the old one
C2_Witness ==
    /\ RewriteReturned
    /\ call.args.old_ep = <<"e", "p", "_", "1">>
    /\ call.args.new_ep = <<"e", "p", "_", "2">>
    /\ call.args.content = <<"e", "p", "_", "1", "e", "p", "_", "1">>
    /\ call.ret = <<"e", "p", "_", "2", "e", "p", "_", "2">>

\* C8: a content that holds none of the old episode, sequence and shot tokens,
\* nor the old file name with or without extension, is written unchanged.
C8_ContentWithoutOldStringsUnchanged ==
    (/\ RewriteReturned
     /\ \A pr \in TokenPairs \cup NamePairs : ~Contains(call.args.content, pr[1]))
    => call.ret = call.args.content

\* a content with another file's version suffix and none of the old strings
C8_Witness ==
    /\ RewriteReturned
    /\ call.args.latest_fn = <<"x", "_", "v", "3", ".", "m", "a">>
    /\ call.args.content = <<"x", "_", "v", "7", "0">>
    /\ call.ret = <<"x", "_", "v", "7", "0">>

-----------------------------------------------------------------------------
(* Claims on clone_latest, under Spec *)

Range(q) == {q[i] : i \in 1..Len(q)}

\* a run of clone_latest has returned
RunEnded == pc = "idle" /\ runs > 0

\* the last message box of the run is the error box with this text
ErrorShown(text) ==
    /\ dialogs # <<>>
    /\ dialogs[Len(dialogs)].box = "showerror"
    /\ dialogs[Len(dialogs)].text = text

\* the last message box of the run is the success box
SuccessShown == dialogs # <<>> /\ dialogs[Len(dialogs)].box = "showinfo"

\* the errors of the steps before the destination is prepared
EarlyErrors ==
    {MsgInvalidSource, MsgNoDest, MsgSourceTokens, MsgDestTokens, MsgIdentical,
     MsgNoCandidates, MsgNoLatest, MsgBadName}

\* C4: a run that ends in a failure detected before the destination is prepared
\* (invalid source, empty destination, missing token, identical folders, no
\* candidate, unparseable latest name) has changed nothing in the file system:
\* no directory created, no file written or changed.
C4_EarlyFailureChangesNothing ==
    (RunEnded /\ \E t \in EarlyErrors : ErrorShown(t)) => (fs = fs0 /\ opened = <<>>)

\* a run ended with "no candidates" and the destination folder still does not exist
C4_Witness ==
    /\ RunEnded
    /\ ErrorShown(MsgNoCandidates)
    /\ loc.dest_root = DST
    /\ ~IsDir(fs, DST)

-----------------------------------------------------------------------------

\* the user answered no to the overwrite question of the run
Declined == loc.resp = <<"F", "a", "l", "s", "e">>

\* C5: when the destination file exists, clone_latest asks before it writes; on
\* the answer no the run ends cancelled, with the cancellation status and no
\* error box, and the file system is what it was when the run started, so the
\* file a first run wrote is unchanged by a declined second run.
C5_DeclinedOverwriteKeepsFile ==
    /\ [](Declined =>
            /\ pc = "idle"
            /\ steps[Len(steps)] = "overwrite check"
            /\ dialogs[Len(dialogs)].box = "askyesno"
            /\ \A i \in 1..Len(dialogs) : dialogs[i].box # "showerror"
            /\ fs = fs0
            /\ opened = <<>>)
    /\ []((opened # <<>> /\ opened[1] \in DOMAIN fs0.files) =>
            /\ loc.resp = <<"T", "r", "u", "e">>
            /\ \E i \in 1..Len(dialogs) : dialogs[i].box = "askyesno")
    /\ [][(pc = "overwrite" /\ pc' = "idle") =>
            status_label' = [text |-> MsgCanceled, fg |-> "orange"]]_vars

\* the second run on the scenario was declined and the file of the first run is there
C5_Witness ==
    /\ Declined
    /\ runs = 2
    /\ status_label.text = MsgCanceled
    /\ Join(DST, <<"l", "i", "g", "h", "t", "i", "n", "g", "_", "v", "0", "0", "1", ".", "m", "a">>) \in DOMAIN fs.files
    /\ fs.files[Join(DST, <<"l", "i", "g", "h", "t", "i", "n", "g", "_", "v", "0", "0", "1", ".", "m", "a">>)] = <<"e", "p", "_", "0", "2", "_", "s", "q", "_", "0", "2", "0", "_", "s", "h", "_", "0", "3", "0", "_", "l", "i", "g", "h", "t", "i", "n", "g", "_", "v", "0", "0", "1">>

-----------------------------------------------------------------------------

\* the path holds <prefix><digit>
HasToken(prefix, path) ==
    \E j \in 1..(Len(path) - Len(prefix)) :
        IsDigit(path[j + Len(prefix)]) /\ OccursAt(path, prefix, j)

LacksToken(path) == \E prefix \in {EP, SQ, SH} : ~HasToken(prefix, path)

\* how the error message shows the token of a path: its value, or None
TokenShown(prefix, path) ==
    IF HasToken(prefix, path) THEN find_token(prefix, path) ELSE <<"N", "o", "n", "e">>

TokensShown(path) == <<TokenShown(EP, path), TokenShown(SQ, path), TokenShown(SH, path)>>

\* the run failed in validation, with one error box
FailedValidation ==
    /\ pc = "idle"
    /\ steps = <<"validate">>
    /\ Len(dialogs) = 1
    /\ dialogs[1].box = "showerror"

\* C6 as stated: for every source or destination path (a path: not the empty
\* text) that lacks a token, clone_latest fails validation and the error it shows
\* identifies exactly the missing tokens of that path.
C6_ErrorAlwaysNamesMissingTokens ==
    runs > 0 =>
        /\ (loc.source_root # <<>> /\ LacksToken(loc.source_root)) =>
               (FailedValidation
                /\ dialogs[1] = ShowError(MsgSourceTokens, TokensShown(loc.source_root)))
        /\ (/\ loc.source_root # <<>>
            /\ ~LacksToken(loc.source_root)
            /\ loc.dest_root # <<>>
            /\ LacksToken(loc.dest_root)) =>
               (FailedValidation
                /\ dialogs[1] = ShowError(MsgDestTokens, TokensShown(loc.dest_root)))

\* C6 amended: a run whose source or destination path lacks a token fails
\* validation.  When the source is an existing directory and the destination is
\* not empty, each lacking source token is extracted as None and the error shows
\* the three source tokens, the found ones by value and the lacking ones as None;
\* when the source also holds its three tokens, the same holds of the
\* destination tokens.  (An invalid source or an empty destination is reported
\* first, without the tokens.)
C6_MissingTokensReported ==
    runs > 0 =>
        /\ (LacksToken(loc.source_root) \/ LacksToken(loc.dest_root)) => FailedValidation
        /\ (IsDir(fs0, loc.source_root) /\ loc.dest_root # <<>>) =>
               /\ ~HasToken(EP, loc.source_root) => loc.old_ep = None
               /\ ~HasToken(SQ, loc.source_root) => loc.old_sq = None
               /\ ~HasToken(SH, loc.source_root) => loc.old_sh = None
               /\ LacksToken(loc.source_root) =>
                      dialogs = <<ShowError(MsgSourceTokens, TokensShown(loc.source_root))>>
               /\ ~LacksToken(loc.source_root) =>
                      /\ ~HasToken(EP, loc.dest_root) => loc.new_ep = None
                      /\ ~HasToken(SQ, loc.dest_root) => loc.new_sq = None
                      /\ ~HasToken(SH, loc.dest_root) => loc.new_sh = None
                      /\ LacksToken(loc.dest_root) =>
                             dialogs = <<ShowError(MsgDestTokens, TokensShown(loc.dest_root))>>

\* the source folder without shot token: ep and sq shown by value, sh as None
C6_Witness ==
    /\ RunEnded
    /\ loc.source_root = SrcNoShot
    /\ loc.dest_root = DST
    /\ dialogs = <<ShowError(MsgSourceTokens, <<<<"e", "p", "_", "0", "1">>, <<"s", "q", "_", "0", "1", "0">>, <<"N", "o", "n", "e">>>>)>>

-----------------------------------------------------------------------------

\* name is <base>_v<digits>.ma, letters in either case, and result is <base><suffix>
IsRenamed(name, result, suffix) ==
    \E k \in 0..Len(name) :
        LET base == SubSeq(name, 1, k)
            rest == SubSeq(name, k + 1, Len(name))
            n == Len(rest)
        IN  /\ n >= 6
            /\ LowerStr(SubSeq(rest, 1, 2)) = <<"_", "v">>
            /\ LowerStr(SubSeq(rest, n - 2, n)) = DOTMA
            /\ \A i \in 3..(n - 3) : IsDigit(rest[i])
            /\ result = base \o suffix

\* the extension of the selected file, as written
SelectedExt == SubSeq(loc.latest_fn, Len(loc.latest_fn) - 2, Len(loc.latest_fn))

\* every run opens at most one file for writing, removes no directory and leaves
\* every other file as it was
WritesAtMostOneFile ==
    /\ Len(opened) <= 1
    /\ fs0.dirs \subseteq fs.dirs
    /\ \A p \in (DOMAIN fs.files \cup DOMAIN fs0.files) \ Range(opened) :
           /\ p \in DOMAIN fs.files
           /\ p \in DOMAIN fs0.files
           /\ fs.files[p] = fs0.files[p]

\* the one file of a successful run: in the destination folder, which exists,
\* named after the selected file with this suffix, holding the rewritten content
WroteRenamedFile(suffix) ==
    /\ Len(opened) = 1
    /\ IsDir(fs, loc.dest_root)
    /\ Dirname(opened[1]) = Resolve(loc.dest_root)
    /\ IsRenamed(Basename(loc.latest_ma), Basename(opened[1]), suffix)
    /\ fs.files[opened[1]] = loc.content

\* C7 as stated: every run writes at most one file; a successful run has written
\* exactly one, directly in the destination directory, named
\* <unversioned-base>_v001.<ext> with the base and the extension of the selected
\* file; no other file is created, modified or removed.
C7_OneFileNamedWithSourceExt ==
    /\ WritesAtMostOneFile
    /\ SuccessShown => WroteRenamedFile(V001 \o SelectedExt)

\* C7 amended: as stated, but the file is named <unversioned-base>_v001.ma: the
\* extension is written ".ma" in lower case whatever the case of the selected
\* file's extension.
C7_OneFileNamedV001 ==
    /\ WritesAtMostOneFile
    /\ SuccessShown => WroteRenamedFile(V001 \o DOTMA)

\* a successful run that had to create the destination folder
C7_Witness ==
    /\ RunEnded
    /\ SuccessShown
    /\ Resolve(loc.dest_root) \notin fs0.dirs
    /\ opened = <<Join(DST, <<"l", "i", "g", "h", "t", "i", "n", "g", "_", "v", "0", "0", "1", ".", "m", "a">>)>>

-----------------------------------------------------------------------------

StepOrder ==
    <<"validate", "discover", "select", "derive name", "prepare destination",
      "overwrite check", "read source", "rewrite", "write">>

\* C10: the steps of a run occur in the order validate, discover, select, derive
\* name, prepare destination, overwrite check, read source, rewrite, write, none
\* repeated; the destination file is opened for writing only after the source was
\* read and the content rewritten, so a run that ends in a read failure leaves
\* every file as it was, also after the user confirmed the overwrite.
C10_StepsInOrderWriteLast ==
    /\ Len(steps) <= Len(StepOrder)
    /\ steps = SubSeq(StepOrder, 1, Len(steps))
    /\ (opened # <<>> \/ fs.files # fs0.files) => steps = StepOrder
    /\ ErrorShown(MsgRead) => (fs.files = fs0.files /\ opened = <<>>)

\* the overwrite was confirmed, then the read failed, and the old file is intact
C10_Witness ==
    /\ RunEnded
    /\ ErrorShown(MsgRead)
    /\ loc.resp = <<"T", "r", "u", "e">>
    /\ fs.files[Resolve(loc.dest_fullpath)] = <<"k", "e", "p", "t">>

====
